---- MODULE Spec2Model ----
(***************************************************************************)
(* Tenant-scoped session layer of the analytics dashboard.                 *)
(*                                                                         *)
(* Client part: the axios client of frontend/src/lib/api.ts (in-memory     *)
(* access token, request interceptor, 401 response interceptor with its    *)
(* refresh-and-replay), the AuthProvider (mount-time refresh, login,       *)
(* logout) and the pages (login, register, dashboard, dataset) that call   *)
(* them.  The HTTP server is not part of the sources; its /auth endpoints  *)
(* are modelled from the specification (sections 4.3 and 6).               *)
(*                                                                         *)
(* Storage part: the schema, foreign keys and row level security policies  *)
(* of db/init.sql.                                                         *)
(***************************************************************************)
EXTENDS Naturals, Integers, Sequences, FiniteSets, TLC

VARIABLES
    accessToken,   \* api.ts:15      let accessToken: string | null   (0 = null)
    user,          \* AuthProvider   useState<User | null>(null)      (0 = null)
    isLoading,     \* AuthProvider   useState(true)
    path,          \* window.location.pathname / router route
    error,         \* Register      useState('') error message of the form
    redirecting,   \* window.location.href = '/login' assigned, document not yet replaced
    cookie,        \* the browser's HTTP-only refresh cookie (0 = none)
    reqs,          \* the requests of the current document, one record per request
    activeRt,      \* server: refresh tokens in state ACTIVE
    rotated,       \* server: refresh tokens in state ROTATED
    validAt,       \* server: access tokens that verify (signed, not expired)
    nextId,        \* server: next fresh token id
    tenants,            \* table tenants:        rows [id, name]
    users,              \* table users:          rows [id, tenant_id, email]
    refresh_tokens,     \* table refresh_tokens: rows [id, user_id, token_hash]
    datasets,           \* table datasets:       rows [id, tenant_id, user_id]
    dataset_rows,       \* table dataset_rows:   rows [id, dataset_id, tenant_id]
    current_tenant_id,  \* setting app.current_tenant_id of the session (0 = not set)
    current_user_id,    \* setting app.current_user_id of the session   (0 = not set)
    txns                \* INSERT statements of concurrent transactions, one record each

clientVars == <<accessToken, user, isLoading, path, error, redirecting, cookie, reqs>>
serverVars == <<activeRt, rotated, validAt, nextId>>
tables == <<tenants, users, refresh_tokens, datasets, dataset_rows>>
dbVars == <<tenants, users, refresh_tokens, datasets, dataset_rows,
            current_tenant_id, current_user_id, txns>>
vars == <<accessToken, user, isLoading, path, error, redirecting, cookie, reqs,
          activeRt, rotated, validAt, nextId,
          tenants, users, refresh_tokens, datasets, dataset_rows,
          current_tenant_id, current_user_id, txns>>

\* ------------------------------------------------------------------ bounds
MaxReq == 3      \* requests one document issues
MaxIssue == 2    \* access/refresh token pairs the server issues
MaxProcs == 2    \* transactions that insert side by side
MaxPwLen == 8    \* length of the longest password typed into the form

Req == 1..MaxReq
TheUser == 1     \* the identity the session belongs to

\* ------------------------------------------------------------------ URLs
\* A URL is the sequence of its path segments: "/auth/refresh" is <<"auth","refresh">>.
RefreshUrl == <<"auth", "refresh">>
LoginUrl == <<"auth", "login">>
LogoutUrl == <<"auth", "logout">>
RegisterUrl == <<"auth", "register">>
TenantsUrl == <<"auth", "tenants">>
DataUrl == <<"datasets">>
DatasetUrl == <<"datasets", "1">>

\* The route of the dataset page, /datasets/[id].
DatasetPath == "/datasets/1"

\* url.includes('/auth/'): a segment "auth" that is followed by another one.
\* (variant: only the login endpoint is recognised)
MutIsAuthEndpoint(url) ==
    \E i \in 1..(Len(url) - 1) : url[i] = "auth" /\ url[i + 1] = "login"

isAuthEndpoint(url) == \E i \in 1..(Len(url) - 1) : url[i] = "auth"

\* window.location.pathname.includes('/login')
OnLoginPage(p) == p = "/login"

\* ------------------------------------------------------------------ requests
NoResp == [status |-> 0, tok |-> 0, uid |-> 0, setck |-> -1]

IdleReq == [kind |-> "none", url |-> <<>>, pc |-> "idle", retry |-> FALSE,
            hdr |-> 0, ck |-> 0, resp |-> NoResp, hung |-> FALSE,
            nRefresh |-> 0, nReplay |-> 0, ckActive |-> FALSE, cancelled |-> FALSE]

\* Request interceptor: attach the in-memory token when there is one.
RequestInterceptor(tok, hdr) == IF tok # 0 THEN tok ELSE hdr

\* A new request through the api instance.
NewReq(kind, url) ==
    [IdleReq EXCEPT !.kind = kind, !.url = url, !.pc = "sent",
                    !.hdr = RequestInterceptor(accessToken, 0), !.ck = cookie]

InFlight(q) == q.pc \in {"sent", "responded", "refresh_sent", "refresh_responded"}
Refreshing(q) == q.pc \in {"refresh_sent", "refresh_responded"}

\* A settled request: what is kept of it is its flags, its counts and the
\* status of its last response.
Settled(q, pc) ==
    [IdleReq EXCEPT !.kind = q.kind, !.url = q.url, !.pc = pc, !.retry = q.retry,
                    !.nRefresh = q.nRefresh, !.nReplay = q.nReplay,
                    !.resp = [NoResp EXCEPT !.status = q.resp.status]]

\* The slot a new request takes: the lowest idle one.
FreeSlot(r) == reqs[r].pc = "idle" /\ \A s \in Req : s < r => reqs[s].pc # "idle"

\* ------------------------------------------------------------------ initial state
\* The state right after the first document load: nothing in memory, the
\* AuthProvider mounted and its refresh call sent.
MountReqs(ck) ==
    [r \in Req |-> IF r = 1
                   THEN [IdleReq EXCEPT !.kind = "init", !.url = RefreshUrl,
                                        !.pc = "sent", !.ck = ck]
                   ELSE IdleReq]

\* Transactions that run one INSERT each, side by side.
Procs == 1..MaxProcs
NoTxn == [table |-> "", key |-> 0, pc |-> "idle", fresh |-> FALSE]

\* The database after init.sql: the seeded tenants, every other table empty,
\* no setting installed.
SeedTenants == {[id |-> 1, name |-> 1], [id |-> 2, name |-> 2]}

DbInit ==
    /\ tenants = SeedTenants
    /\ users = {}
    /\ refresh_tokens = {}
    /\ datasets = {}
    /\ dataset_rows = {}
    /\ current_tenant_id = 0
    /\ current_user_id = 0
    /\ txns = [p \in Procs |-> NoTxn]

\* The client of a document that has just loaded, and the server.
ClientInit ==
    /\ accessToken = 0
    /\ user = 0
    /\ isLoading = TRUE
    /\ error = ""
    /\ path \in {"/login", "/dashboard"}
    /\ redirecting = FALSE
    /\ cookie \in {0, 1}
    /\ reqs = MountReqs(cookie)
    /\ activeRt \in {{}, {1}}
    /\ rotated = {}
    /\ validAt = {}
    /\ nextId = 2

Init == DbInit /\ ClientInit

\* ------------------------------------------------------------------ server
\* The /auth endpoints and the token check of the data endpoints (not in the
\* sources; from sections 4.2, 4.3 and 6 of the specification).

\* Token ids are 1 (the cookie of the earlier session), then 2, 3, ... in pairs.
CanIssue == nextId < 2 + 2 * MaxIssue

\* A rotate that issues the successor and leaves the old token ACTIVE.
MutSrvRefresh(q, fail) ==
    IF fail \/ (q.ck \in activeRt /\ ~CanIssue)
    THEN /\ UNCHANGED serverVars
         /\ reqs' = [reqs EXCEPT ![q.slot] = q.next500]
    ELSE IF q.ck \in activeRt
    THEN /\ activeRt' = activeRt \cup {nextId + 1}
         /\ rotated' = rotated
         /\ validAt' = validAt \cup {nextId}
         /\ nextId' = nextId + 2
         /\ reqs' = [reqs EXCEPT ![q.slot] =
                        [q.answered EXCEPT !.resp = [status |-> 200, tok |-> nextId,
                                                     uid |-> TheUser, setck |-> nextId + 1]]]
    ELSE /\ UNCHANGED serverVars
         /\ reqs' = [reqs EXCEPT ![q.slot] =
                        [q.answered EXCEPT !.resp = [NoResp EXCEPT !.status = 401]]]

\* POST /auth/refresh: rotate(ck).  Success marks ck ROTATED, inserts its
\* successor and mints an access token; anything else is InvalidToken.
SrvRefresh(q, fail) ==
    IF fail \/ (q.ck \in activeRt /\ ~CanIssue)
    THEN /\ UNCHANGED serverVars
         /\ reqs' = [reqs EXCEPT ![q.slot] = q.next500]
    ELSE IF q.ck \in activeRt
    THEN /\ activeRt' = (activeRt \ {q.ck}) \cup {nextId + 1}
         /\ rotated' = rotated \cup {q.ck}
         /\ validAt' = validAt \cup {nextId}
         /\ nextId' = nextId + 2
         /\ reqs' = [reqs EXCEPT ![q.slot] =
                        [q.answered EXCEPT !.resp = [status |-> 200, tok |-> nextId,
                                                     uid |-> TheUser, setck |-> nextId + 1]]]
    ELSE /\ UNCHANGED serverVars
         /\ reqs' = [reqs EXCEPT ![q.slot] =
                        [q.answered EXCEPT !.resp = [NoResp EXCEPT !.status = 401]]]

\* POST /auth/login: verifyCredentials, then a new access token and a new
\* refresh-token chain.
SrvLogin(q, fail, credsOk) ==
    IF fail \/ (credsOk /\ ~CanIssue)
    THEN /\ UNCHANGED serverVars
         /\ reqs' = [reqs EXCEPT ![q.slot] = q.next500]
    ELSE IF credsOk
    THEN /\ activeRt' = activeRt \cup {nextId + 1}
         /\ validAt' = validAt \cup {nextId}
         /\ nextId' = nextId + 2
         /\ UNCHANGED rotated
         /\ reqs' = [reqs EXCEPT ![q.slot] =
                        [q.answered EXCEPT !.resp = [status |-> 200, tok |-> nextId,
                                                     uid |-> TheUser, setck |-> nextId + 1]]]
    ELSE /\ UNCHANGED serverVars
         /\ reqs' = [reqs EXCEPT ![q.slot] =
                        [q.answered EXCEPT !.resp = [NoResp EXCEPT !.status = 401]]]

\* POST /auth/register: a new user, then as login; DuplicateEmail,
\* TenantNotFound and WeakPassword are answered 400.
SrvRegister(q, fail, accepted) ==
    IF fail \/ (accepted /\ ~CanIssue)
    THEN /\ UNCHANGED serverVars
         /\ reqs' = [reqs EXCEPT ![q.slot] = q.next500]
    ELSE IF accepted
    THEN /\ activeRt' = activeRt \cup {nextId + 1}
         /\ validAt' = validAt \cup {nextId}
         /\ nextId' = nextId + 2
         /\ UNCHANGED rotated
         /\ reqs' = [reqs EXCEPT ![q.slot] =
                        [q.answered EXCEPT !.resp = [status |-> 200, tok |-> nextId,
                                                     uid |-> TheUser, setck |-> nextId + 1]]]
    ELSE /\ UNCHANGED serverVars
         /\ reqs' = [reqs EXCEPT ![q.slot] =
                        [q.answered EXCEPT !.resp = [NoResp EXCEPT !.status = 400]]]

\* GET /auth/tenants: public, the list of tenants.
SrvTenants(q, fail) ==
    /\ UNCHANGED serverVars
    /\ reqs' = [reqs EXCEPT ![q.slot] =
                  IF fail THEN q.next500
                  ELSE [q.answered EXCEPT !.resp = [NoResp EXCEPT !.status = 200]]]

\* POST /auth/logout: revoke(ck), idempotent; 204 and the cookie cleared.
SrvLogout(q, fail) ==
    IF fail
    THEN /\ UNCHANGED serverVars
         /\ reqs' = [reqs EXCEPT ![q.slot] = q.next500]
    ELSE /\ activeRt' = activeRt \ {q.ck}
         /\ UNCHANGED <<rotated, validAt, nextId>>
         /\ reqs' = [reqs EXCEPT ![q.slot] =
                        [q.answered EXCEPT !.resp = [NoResp EXCEPT !.status = 204, !.setck = 0]]]

\* A data endpoint: verifyAccessToken on the Authorization header.
SrvData(q, fail) ==
    /\ UNCHANGED serverVars
    /\ reqs' = [reqs EXCEPT ![q.slot] =
                  IF fail THEN q.next500
                  ELSE [q.answered EXCEPT !.resp =
                          [NoResp EXCEPT !.status = IF q.hdr \in validAt THEN 200 ELSE 401]]]

\* The exchange of request r that is on the wire, as the server sees it.
Exchange(r) ==
    LET q == reqs[r]
        answered == [q EXCEPT !.pc = IF q.pc = "sent" THEN "responded"
                                     ELSE "refresh_responded"]
    IN  [slot |-> r,
         url |-> IF q.pc = "refresh_sent" THEN RefreshUrl ELSE q.url,
         ck |-> q.ck, hdr |-> q.hdr,
         answered |-> answered,
         next500 |-> [answered EXCEPT !.resp = [NoResp EXCEPT !.status = 500]]]

\* The server (or the network) answers the exchange of r.
SrvHandle(r) ==
    /\ UNCHANGED dbVars
    /\ reqs[r].pc \in {"sent", "refresh_sent"}
    /\ ~reqs[r].hung
    /\ UNCHANGED <<accessToken, user, isLoading, path, error, redirecting, cookie>>
    /\ \E fail \in BOOLEAN :
        LET q == Exchange(r) IN
        CASE q.url = RefreshUrl -> SrvRefresh(q, fail)
          [] q.url = LoginUrl -> \E credsOk \in BOOLEAN : SrvLogin(q, fail, credsOk)
          [] q.url = LogoutUrl -> SrvLogout(q, fail)
          [] q.url = RegisterUrl -> \E accepted \in BOOLEAN : SrvRegister(q, fail, accepted)
          [] q.url = TenantsUrl -> SrvTenants(q, fail)
          [] OTHER -> SrvData(q, fail)

\* The exchange of r never gets an answer.
Hang(r) ==
    /\ UNCHANGED dbVars
    /\ reqs[r].pc \in {"sent", "refresh_sent"}
    /\ ~reqs[r].hung
    /\ reqs' = [reqs EXCEPT ![r].hung = TRUE]
    /\ UNCHANGED <<accessToken, user, isLoading, path, error, redirecting, cookie>>
    /\ UNCHANGED serverVars

\* An access token passes its expiry.
ExpireAccess ==
    /\ UNCHANGED dbVars
    /\ \E t \in validAt : validAt' = validAt \ {t}
    /\ UNCHANGED <<activeRt, rotated, nextId>>
    /\ UNCHANGED clientVars
\* ------------------------------------------------------------------ client session
\* What the handlers below read and write of the client's session.
Sess == [tok |-> accessToken, user |-> user, loading |-> isLoading,
         path |-> path, redir |-> redirecting, error |-> error]

\* AuthProvider.login / AuthProvider.logout
AuthLogin(s, tok, u) == [s EXCEPT !.tok = tok, !.user = u]
AuthLogout(s) == [s EXCEPT !.tok = 0, !.user = 0]

\* initAuth: try / catch / finally
InitAuthThen(s, resp) == [s EXCEPT !.tok = resp.tok, !.user = resp.uid, !.loading = FALSE]
\* (variant: the catch branch leaves the session as it is)
MutInitAuthCatch(s) == [s EXCEPT !.loading = FALSE]

InitAuthCatch(s) == [s EXCEPT !.tok = 0, !.user = 0, !.loading = FALSE]

\* Login.handleSubmit after a successful response: login(), router.push('/dashboard')
LoginSubmitThen(s, resp) == [AuthLogin(s, resp.tok, resp.uid) EXCEPT !.path = "/dashboard"]

\* Register.handleSubmit after a successful response: login(), router.push('/dashboard')
RegisterSubmitThen(s, resp) == [AuthLogin(s, resp.tok, resp.uid) EXCEPT !.path = "/dashboard"]

\* Register.handleSubmit, catch: setError(detail || 'Registration failed. ...')
RegisterSubmitCatch(s) == [s EXCEPT !.error = "Registration failed"]

\* Register fetchTenants, catch: setError('Failed to load tenants')
FetchTenantsCatch(s) == [s EXCEPT !.error = "Failed to load tenants"]

\* Dashboard.handleLogout after apiLogout settled either way: logout(), router.push('/login')
HandleLogoutEnd(s) == [AuthLogout(s) EXCEPT !.path = "/login"]

\* (variant: the new token is put on the request but not installed)
MutRefreshThen(s, newToken) == s

\* 401 interceptor, refresh succeeded: setAccessToken(newToken)
RefreshThen(s, newToken) == [s EXCEPT !.tok = newToken]

\* (variant: redirect without clearing the token)
MutRefreshCatch(s) == [s EXCEPT !.redir = s.redir \/ ~OnLoginPage(s.path)]

\* 401 interceptor, refresh failed: setAccessToken(null), and off to /login
\* unless already there
RefreshCatch(s) == [s EXCEPT !.tok = 0, !.redir = s.redir \/ ~OnLoginPage(s.path)]

\* The 401 interceptor's condition for refresh-and-retry.
ShouldRefresh(q) == q.resp.status = 401 /\ ~q.retry /\ ~isAuthEndpoint(q.url)

\* (variant: the request is not flagged)
MutStartRefresh(q, ck) ==
    [q EXCEPT !.pc = "refresh_sent", !.ck = ck, !.resp = NoResp,
              !.nRefresh = q.nRefresh + 1, !.ckActive = ck \in activeRt]

\* originalRequest._retry = true; await axios.post('/auth/refresh')
StartRefresh(q, ck) ==
    [q EXCEPT !.retry = TRUE, !.pc = "refresh_sent", !.ck = ck, !.resp = NoResp,
              !.nRefresh = q.nRefresh + 1, !.ckActive = ck \in activeRt]

\* originalRequest.headers.Authorization = newToken; return api(originalRequest),
\* which passes the request interceptor again.
Replay(q, s, newToken, ck) ==
    [q EXCEPT !.pc = "sent", !.hdr = RequestInterceptor(s.tok, newToken), !.ck = ck,
              !.resp = NoResp, !.nReplay = q.nReplay + 1]

\* (variant: handleLogout with logout() and the navigation inside the try)
MutContinue(kind, ok, resp, s) ==
    CASE kind = "init" -> IF ok THEN InitAuthThen(s, resp) ELSE InitAuthCatch(s)
      [] kind = "login" -> IF ok THEN LoginSubmitThen(s, resp) ELSE s
      [] kind = "logout" -> IF ok THEN HandleLogoutEnd(s) ELSE s
      [] kind = "register" -> IF ok THEN RegisterSubmitThen(s, resp) ELSE RegisterSubmitCatch(s)
      [] kind = "tenants" -> IF ok THEN s ELSE FetchTenantsCatch(s)
      [] OTHER -> s

\* What the caller of the request does when its promise settles.
Continue(kind, ok, resp, s) ==
    CASE kind = "init" -> IF ok THEN InitAuthThen(s, resp) ELSE InitAuthCatch(s)
      [] kind = "login" -> IF ok THEN LoginSubmitThen(s, resp) ELSE s
      [] kind = "logout" -> HandleLogoutEnd(s)
      [] kind = "register" -> IF ok THEN RegisterSubmitThen(s, resp) ELSE RegisterSubmitCatch(s)
      [] kind = "tenants" -> IF ok THEN s ELSE FetchTenantsCatch(s)
      [] OTHER -> s

\* The response interceptor on an error response of the api request q:
\* either it starts a refresh or it rejects.
Intercept(q, s, ck) ==
    IF ShouldRefresh(q)
    THEN [branch |-> "refresh", q |-> StartRefresh(q, ck), s |-> s]
    ELSE [branch |-> "reject", q |-> Settled(q, "rejected"), s |-> s]

SetSess(s) ==
    /\ accessToken' = s.tok
    /\ user' = s.user
    /\ isLoading' = s.loading
    /\ path' = s.path
    /\ redirecting' = s.redir
    /\ error' = s.error

\* A logout that completes marks the refresh exchanges then on the wire.
MarkCancelled(rs, r) ==
    IF rs[r].kind = "logout" /\ rs[r].pc \in {"resolved", "rejected"}
    THEN [x \in Req |-> IF x # r /\ Refreshing(rs[x])
                        THEN [rs[x] EXCEPT !.cancelled = TRUE] ELSE rs[x]]
    ELSE rs

\* The record of a request whose promise resolved.  handleFileSelect goes on
\* in the same task: await uploadDataset(file) is followed by fetchDatasets(),
\* a new request, which takes the place of the upload in the record.
Resolved(q) ==
    IF q.kind = "upload" THEN NewReq("data", DataUrl) ELSE Settled(q, "resolved")

\* The browser hands the response of the api request r to the client.
DeliverApi(r) ==
    /\ UNCHANGED dbVars
    /\ reqs[r].pc = "responded"
    /\ LET q == reqs[r]
           ck == IF q.resp.setck >= 0 THEN q.resp.setck ELSE cookie
           ok == q.resp.status \in {200, 204}
           i == Intercept(q, Sess, ck)
       IN  /\ cookie' = ck
           /\ IF ok
              THEN /\ SetSess(Continue(q.kind, TRUE, q.resp, Sess))
                   /\ reqs' = MarkCancelled([reqs EXCEPT ![r] = Resolved(q)], r)
              ELSE IF i.branch = "refresh"
              THEN /\ SetSess(i.s)
                   /\ reqs' = [reqs EXCEPT ![r] = i.q]
              ELSE /\ SetSess(Continue(q.kind, FALSE, q.resp, i.s))
                   /\ reqs' = MarkCancelled([reqs EXCEPT ![r] = i.q], r)
    /\ UNCHANGED serverVars

\* The browser hands the response of r's refresh call to the 401 interceptor.
\* setAccessToken, the header assignment and the request interceptor of the
\* replay all run in the task of this response (the interceptor chain is a
\* chain of microtasks), so no other response or click comes in between.
DeliverRefresh(r) ==
    /\ UNCHANGED dbVars
    /\ reqs[r].pc = "refresh_responded"
    /\ LET q == reqs[r]
           ck == IF q.resp.setck >= 0 THEN q.resp.setck ELSE cookie
       IN  /\ cookie' = ck
           /\ IF q.resp.status = 200
              THEN LET s == RefreshThen(Sess, q.resp.tok)
                   IN  /\ SetSess(s)
                       /\ reqs' = [reqs EXCEPT ![r] = Replay(q, s, q.resp.tok, ck)]
              ELSE /\ SetSess(Continue(q.kind, FALSE, q.resp, RefreshCatch(Sess)))
                   /\ reqs' = MarkCancelled([reqs EXCEPT ![r] = Settled(q, "rejected")], r)
    /\ UNCHANGED serverVars

\* ------------------------------------------------------------------ pages
\* Login.handleSubmit: the button is disabled while a login is in flight.
SubmitLogin ==
    /\ UNCHANGED dbVars
    /\ path = "/login"
    /\ \A x \in Req : ~(reqs[x].kind = "login" /\ InFlight(reqs[x]))
    /\ \E r \in Req : FreeSlot(r) /\ reqs' = [reqs EXCEPT ![r] = NewReq("login", LoginUrl)]
    /\ UNCHANGED <<accessToken, user, isLoading, path, error, redirecting, cookie>>
    /\ UNCHANGED serverVars

\* Dashboard: fetchDatasets / uploadDataset, issued while authenticated.
\* (HandleFileSelect below is the upload together with the fetchDatasets that
\* follows it.)
FetchData ==
    /\ UNCHANGED dbVars
    /\ path = "/dashboard"
    /\ user # 0
    /\ \E r \in Req : FreeSlot(r) /\ reqs' = [reqs EXCEPT ![r] = NewReq("data", DataUrl)]
    /\ UNCHANGED <<accessToken, user, isLoading, path, error, redirecting, cookie>>
    /\ UNCHANGED serverVars

\* Dashboard.handleLogout: await apiLogout(); the button is rendered once
\* loading is over and the user is authenticated.
HandleLogout ==
    /\ UNCHANGED dbVars
    /\ path = "/dashboard"
    /\ user # 0
    /\ ~isLoading
    /\ \E r \in Req : FreeSlot(r) /\ reqs' = [reqs EXCEPT ![r] = NewReq("logout", LogoutUrl)]
    /\ UNCHANGED <<accessToken, user, isLoading, path, error, redirecting, cookie>>
    /\ UNCHANGED serverVars

\* Dashboard effect: router.push('/login') when not loading and not authenticated.
DashboardRedirect ==
    /\ UNCHANGED dbVars
    /\ path = "/dashboard"
    /\ ~isLoading
    /\ user = 0
    /\ path' = "/login"
    /\ UNCHANGED <<accessToken, user, isLoading, error, redirecting, cookie, reqs>>
    /\ UNCHANGED serverVars

\* Dashboard.handleFileSelect with a CSV file of allowed size: uploadDataset;
\* the input is rendered once loading is over and the user is authenticated,
\* and is disabled while an upload is in flight.
HandleFileSelect ==
    /\ UNCHANGED dbVars
    /\ path = "/dashboard"
    /\ user # 0
    /\ ~isLoading
    /\ \A x \in Req : ~(reqs[x].kind = "upload" /\ InFlight(reqs[x]))
    /\ \E r \in Req : FreeSlot(r) /\ reqs' = [reqs EXCEPT ![r] = NewReq("upload", DataUrl)]
    /\ UNCHANGED <<accessToken, user, isLoading, path, error, redirecting, cookie>>
    /\ UNCHANGED serverVars

\* Dashboard.handleDatasetClick on a row of the loaded list.
HandleDatasetClick ==
    /\ UNCHANGED dbVars
    /\ path = "/dashboard"
    /\ user # 0
    /\ ~isLoading
    /\ \E x \in Req : reqs[x].kind = "data" /\ reqs[x].pc = "resolved"
    /\ path' = DatasetPath
    /\ UNCHANGED <<accessToken, user, isLoading, error, redirecting, cookie, reqs>>
    /\ UNCHANGED serverVars

\* DatasetView fetch effect: fetchDataset when the id is known and the user is
\* authenticated.
FetchDataset ==
    /\ UNCHANGED dbVars
    /\ path = DatasetPath
    /\ user # 0
    /\ \E r \in Req : FreeSlot(r) /\ reqs' = [reqs EXCEPT ![r] = NewReq("data", DatasetUrl)]
    /\ UNCHANGED <<accessToken, user, isLoading, path, error, redirecting, cookie>>
    /\ UNCHANGED serverVars

\* DatasetView effect: router.push('/login') when not loading and not authenticated.
DatasetRedirect ==
    /\ UNCHANGED dbVars
    /\ path = DatasetPath
    /\ ~isLoading
    /\ user = 0
    /\ path' = "/login"
    /\ UNCHANGED <<accessToken, user, isLoading, error, redirecting, cookie, reqs>>
    /\ UNCHANGED serverVars

\* DatasetView back button, rendered once fetchDataset has settled.
BackToDashboard ==
    /\ UNCHANGED dbVars
    /\ path = DatasetPath
    /\ user # 0
    /\ ~isLoading
    /\ \E x \in Req : reqs[x].url = DatasetUrl /\ reqs[x].pc \in {"resolved", "rejected"}
    /\ path' = "/dashboard"
    /\ UNCHANGED <<accessToken, user, isLoading, error, redirecting, cookie, reqs>>
    /\ UNCHANGED serverVars

\* Login page: the Link to /register.  The Register page mounts with an empty
\* form and its effect calls fetchTenants.
GoToRegister ==
    /\ UNCHANGED dbVars
    /\ path = "/login"
    /\ path' = "/register"
    /\ error' = ""
    /\ \E r \in Req : FreeSlot(r) /\ reqs' = [reqs EXCEPT ![r] = NewReq("tenants", TenantsUrl)]
    /\ UNCHANGED <<accessToken, user, isLoading, redirecting, cookie>>
    /\ UNCHANGED serverVars

\* Register page: the Link to /login.
GoToLogin ==
    /\ UNCHANGED dbVars
    /\ path = "/register"
    /\ path' = "/login"
    /\ UNCHANGED <<accessToken, user, isLoading, error, redirecting, cookie, reqs>>
    /\ UNCHANGED serverVars

\* The password strength the form asks for.
MinPasswordLength == 8

\* What can be typed into a password field: strings of one letter.
Passwords ==
    {[i \in 1..n |-> ch] : n \in (MinPasswordLength - 1)..MaxPwLen, ch \in {"a", "b"}}

\* (variant: the length check off by one)
MutRegisterValidate(password, confirmPassword) ==
    IF password # confirmPassword THEN "Passwords do not match"
    ELSE IF Len(password) + 1 < MinPasswordLength
    THEN "Password must be at least 8 characters"
    ELSE ""

\* Register.handleSubmit, the two checks before the request: the error they
\* set, "" when both pass.
RegisterValidate(password, confirmPassword) ==
    IF password # confirmPassword THEN "Passwords do not match"
    ELSE IF Len(password) < MinPasswordLength
    THEN "Password must be at least 8 characters"
    ELSE ""

\* Register.handleSubmit: setError(''), the checks, then apiRegister; the
\* button is disabled while a register call is in flight.
SubmitRegister(password, confirmPassword) ==
    /\ UNCHANGED dbVars
    /\ path = "/register"
    /\ \A x \in Req : ~(reqs[x].kind = "register" /\ InFlight(reqs[x]))
    /\ error' = RegisterValidate(password, confirmPassword)
    /\ IF RegisterValidate(password, confirmPassword) # ""
       THEN UNCHANGED reqs
       ELSE \E r \in Req :
               FreeSlot(r) /\ reqs' = [reqs EXCEPT ![r] = NewReq("register", RegisterUrl)]
    /\ UNCHANGED <<accessToken, user, isLoading, path, redirecting, cookie>>
    /\ UNCHANGED serverVars

\* A document load (the pending navigation to /login, or a reload): the module
\* state starts over, the requests of the old document are gone, the
\* AuthProvider mounts and calls initAuth.
PageLoad ==
    /\ UNCHANGED dbVars
    /\ accessToken' = 0
    /\ user' = 0
    /\ isLoading' = TRUE
    /\ path' = IF redirecting THEN "/login" ELSE path
    /\ error' = ""
    /\ redirecting' = FALSE
    /\ reqs' = MountReqs(cookie)
    /\ UNCHANGED cookie
    /\ UNCHANGED serverVars

\* ------------------------------------------------------------------ specification
\* The steps of one document and of the server.
Session ==
    \/ \E r \in Req : SrvHandle(r)
    \/ \E r \in Req : DeliverApi(r)
    \/ \E r \in Req : DeliverRefresh(r)
    \/ SubmitLogin
    \/ FetchData
    \/ HandleLogout
    \/ DashboardRedirect
    \/ ExpireAccess

Next == Session \/ PageLoad

Spec == Init /\ [][Next]_vars

\* The session of a visitor who registers: login page, register page, and the
\* dashboard's redirect for the visitor who starts there.
RegisterNext ==
    \/ \E r \in Req : SrvHandle(r)
    \/ \E r \in Req : DeliverApi(r)
    \/ DashboardRedirect
    \/ GoToRegister
    \/ GoToLogin
    \/ \E password, confirmPassword \in Passwords : SubmitRegister(password, confirmPassword)

RegisterSpec == Init /\ [][RegisterNext]_vars

\* The session with the upload and the dataset page.
PagesNext ==
    \/ Next
    \/ HandleFileSelect
    \/ HandleDatasetClick
    \/ FetchDataset
    \/ DatasetRedirect
    \/ BackToDashboard

PagesSpec == Init /\ [][PagesNext]_vars

\* One document, where an exchange may also stay unanswered for ever, and
\* where every answer that can be given or delivered eventually is.
NextHang == Session \/ \E r \in Req : Hang(r)

FairSpec ==
    /\ Init
    /\ [][NextHang]_vars
    /\ \A r \in Req : WF_vars(SrvHandle(r))
    /\ \A r \in Req : WF_vars(DeliverApi(r))
    /\ \A r \in Req : WF_vars(DeliverRefresh(r))
\* ------------------------------------------------------------------ storage
\* db/init.sql: tables, keys, foreign keys with ON DELETE CASCADE, and the row
\* level security policies.  A statement runs under the settings
\* app.current_tenant_id / app.current_user_id then in force, as a role the
\* policies apply to.

MaxUsers == 2       \* ids of users rows
MaxDatasets == 2    \* ids of datasets rows
MaxDataRows == 1    \* ids of dataset_rows rows
MaxTokens == 1      \* ids of refresh_tokens rows

TenantIds == {1, 2}
TenantNames == {1, 2}
Emails == {1, 2}
TokenHashes == {1, 2}
UserIds == 1..MaxUsers
DatasetIds == 1..MaxDatasets
DataRowIds == 1..MaxDataRows
TokenIds == 1..MaxTokens

Ids(table) == {row.id : row \in table}

\* The second argument of current_setting in the four policies.
missing_ok == TRUE

\* current_setting(name, missing_ok): the value of a setting that is set; for
\* one that is not set, NULL when missing_ok and an error otherwise.
current_setting(setting, ok) ==
    IF setting # 0 THEN "value" ELSE IF ok THEN "null" ELSE "error"

\* A statement on a table with a policy evaluates the policy's expression: it
\* raises when current_setting raises.
StatementRaises(setting) == current_setting(setting, missing_ok) = "error"

\* current_setting(name, true)::uuid = column; a setting that is not set reads
\* as NULL, and a comparison with NULL is not true.
SettingEquals(setting, value) ==
    current_setting(setting, missing_ok) = "value" /\ value = setting

\* CREATE POLICY ... FOR ALL USING (...): the rows a statement sees, and (no
\* WITH CHECK given) the rows it may write.
users_tenant_isolation(row) == SettingEquals(current_tenant_id, row.tenant_id)
datasets_tenant_isolation(row) == SettingEquals(current_tenant_id, row.tenant_id)
dataset_rows_tenant_isolation(row) == SettingEquals(current_tenant_id, row.tenant_id)
\* The policy written against the tenant setting instead of the user setting.
MutRefreshTokensPolicy(row) == SettingEquals(current_tenant_id, row.user_id)

refresh_tokens_user_isolation(row) == SettingEquals(current_user_id, row.user_id)

\* SELECT * FROM <table> under the policies.
SelectUsers == {row \in users : users_tenant_isolation(row)}
SelectDatasets == {row \in datasets : datasets_tenant_isolation(row)}
SelectDataRows == {row \in dataset_rows : dataset_rows_tenant_isolation(row)}
SelectTokens == {row \in refresh_tokens : refresh_tokens_user_isolation(row)}

\* ON DELETE CASCADE, from a set of users rows being deleted.
CascadeUsers(gone) ==
    LET uids == Ids(gone)
        ds == {d \in datasets : d.user_id \in uids}
    IN  /\ users' = users \ gone
        /\ refresh_tokens' = {t \in refresh_tokens : t.user_id \notin uids}
        /\ datasets' = datasets \ ds
        /\ dataset_rows' = {x \in dataset_rows : x.dataset_id \notin Ids(ds)}

\* set_config('app.current_tenant_id', ...), set_config('app.current_user_id', ...)
SetContext(t, u) ==
    /\ <<t, u>> # <<current_tenant_id, current_user_id>>
    /\ current_tenant_id' = t
    /\ current_user_id' = u
    /\ UNCHANGED tables
    /\ UNCHANGED <<clientVars, serverVars, txns>>

\* INSERT INTO tenants: primary key, name UNIQUE; the table has no policy.
CanInsertTenant(row) ==
    /\ row.id \notin Ids(tenants)
    /\ \A x \in tenants : x.name # row.name

InsertTenant(row) ==
    /\ UNCHANGED <<clientVars, serverVars, txns, current_tenant_id, current_user_id>>
    /\ CanInsertTenant(row)
    /\ tenants' = tenants \cup {row}
    /\ UNCHANGED <<users, refresh_tokens, datasets, dataset_rows>>

\* DELETE FROM tenants WHERE id = ...: cascades to users, datasets, dataset_rows.
DeleteTenant(row) ==
    /\ UNCHANGED <<clientVars, serverVars, txns, current_tenant_id, current_user_id>>
    /\ row \in tenants
    /\ tenants' = tenants \ {row}
    /\ LET us == {x \in users : x.tenant_id = row.id}
           ds == {d \in datasets : d.tenant_id = row.id \/ d.user_id \in Ids(us)}
       IN  /\ users' = users \ us
           /\ refresh_tokens' = {t \in refresh_tokens : t.user_id \notin Ids(us)}
           /\ datasets' = datasets \ ds
           /\ dataset_rows' = {x \in dataset_rows :
                                  x.tenant_id # row.id /\ x.dataset_id \notin Ids(ds)}

\* INSERT INTO users: policy check on the new row, primary key, email UNIQUE,
\* tenant_id REFERENCES tenants.
\* The table without its UNIQUE constraint on email.
MutCanInsertUser(row) ==
    /\ users_tenant_isolation(row)
    /\ row.id \notin Ids(users)
    /\ row.tenant_id \in Ids(tenants)

CanInsertUser(row) ==
    /\ users_tenant_isolation(row)
    /\ row.id \notin Ids(users)
    /\ \A x \in users : x.email # row.email
    /\ row.tenant_id \in Ids(tenants)

InsertUser(row) ==
    /\ UNCHANGED <<clientVars, serverVars, txns, current_tenant_id, current_user_id>>
    /\ CanInsertUser(row)
    /\ users' = users \cup {row}
    /\ UNCHANGED <<tenants, refresh_tokens, datasets, dataset_rows>>

\* UPDATE users SET tenant_id = ..., email = ... WHERE id = ...
UpdateUser(old, new) ==
    /\ UNCHANGED <<clientVars, serverVars, txns, current_tenant_id, current_user_id>>
    /\ old \in SelectUsers
    /\ new.id = old.id /\ new # old
    /\ users_tenant_isolation(new)
    /\ \A x \in users \ {old} : x.email # new.email
    /\ new.tenant_id \in Ids(tenants)
    /\ users' = (users \ {old}) \cup {new}
    /\ UNCHANGED <<tenants, refresh_tokens, datasets, dataset_rows>>

\* DELETE FROM users WHERE id = ...: cascades to refresh_tokens and datasets.
DeleteUser(row) ==
    /\ UNCHANGED <<clientVars, serverVars, txns, current_tenant_id, current_user_id>>
    /\ row \in SelectUsers
    /\ CascadeUsers({row})
    /\ UNCHANGED tenants

\* INSERT INTO datasets: policy check, primary key, both foreign keys.
InsertDataset(row) ==
    /\ UNCHANGED <<clientVars, serverVars, txns, current_tenant_id, current_user_id>>
    /\ datasets_tenant_isolation(row)
    /\ row.id \notin Ids(datasets)
    /\ row.tenant_id \in Ids(tenants)
    /\ row.user_id \in Ids(users)
    /\ datasets' = datasets \cup {row}
    /\ UNCHANGED <<tenants, users, refresh_tokens, dataset_rows>>

\* UPDATE datasets SET tenant_id = ..., user_id = ... WHERE id = ...
UpdateDataset(old, new) ==
    /\ UNCHANGED <<clientVars, serverVars, txns, current_tenant_id, current_user_id>>
    /\ old \in SelectDatasets
    /\ new.id = old.id /\ new # old
    /\ datasets_tenant_isolation(new)
    /\ new.tenant_id \in Ids(tenants)
    /\ new.user_id \in Ids(users)
    /\ datasets' = (datasets \ {old}) \cup {new}
    /\ UNCHANGED <<tenants, users, refresh_tokens, dataset_rows>>

\* DELETE FROM datasets WHERE id = ...: cascades to dataset_rows.
DeleteDataset(row) ==
    /\ UNCHANGED <<clientVars, serverVars, txns, current_tenant_id, current_user_id>>
    /\ row \in SelectDatasets
    /\ datasets' = datasets \ {row}
    /\ dataset_rows' = {x \in dataset_rows : x.dataset_id # row.id}
    /\ UNCHANGED <<tenants, users, refresh_tokens>>

\* INSERT INTO dataset_rows: policy check, primary key, both foreign keys.
InsertDataRow(row) ==
    /\ UNCHANGED <<clientVars, serverVars, txns, current_tenant_id, current_user_id>>
    /\ dataset_rows_tenant_isolation(row)
    /\ row.id \notin Ids(dataset_rows)
    /\ row.dataset_id \in Ids(datasets)
    /\ row.tenant_id \in Ids(tenants)
    /\ dataset_rows' = dataset_rows \cup {row}
    /\ UNCHANGED <<tenants, users, refresh_tokens, datasets>>

\* UPDATE dataset_rows SET dataset_id = ..., tenant_id = ... WHERE id = ...
UpdateDataRow(old, new) ==
    /\ UNCHANGED <<clientVars, serverVars, txns, current_tenant_id, current_user_id>>
    /\ old \in SelectDataRows
    /\ new.id = old.id /\ new # old
    /\ dataset_rows_tenant_isolation(new)
    /\ new.dataset_id \in Ids(datasets)
    /\ new.tenant_id \in Ids(tenants)
    /\ dataset_rows' = (dataset_rows \ {old}) \cup {new}
    /\ UNCHANGED <<tenants, users, refresh_tokens, datasets>>

\* DELETE FROM dataset_rows WHERE id = ...
DeleteDataRow(row) ==
    /\ UNCHANGED <<clientVars, serverVars, txns, current_tenant_id, current_user_id>>
    /\ row \in SelectDataRows
    /\ dataset_rows' = dataset_rows \ {row}
    /\ UNCHANGED <<tenants, users, refresh_tokens, datasets>>

\* INSERT INTO refresh_tokens: policy check, primary key, token_hash UNIQUE,
\* user_id REFERENCES users.
InsertToken(row) ==
    /\ UNCHANGED <<clientVars, serverVars, txns, current_tenant_id, current_user_id>>
    /\ refresh_tokens_user_isolation(row)
    /\ row.id \notin Ids(refresh_tokens)
    /\ \A x \in refresh_tokens : x.token_hash # row.token_hash
    /\ row.user_id \in Ids(users)
    /\ refresh_tokens' = refresh_tokens \cup {row}
    /\ UNCHANGED <<tenants, users, datasets, dataset_rows>>

\* UPDATE refresh_tokens SET user_id = ..., token_hash = ... WHERE id = ...
UpdateToken(old, new) ==
    /\ UNCHANGED <<clientVars, serverVars, txns, current_tenant_id, current_user_id>>
    /\ old \in SelectTokens
    /\ new.id = old.id /\ new # old
    /\ refresh_tokens_user_isolation(new)
    /\ \A x \in refresh_tokens \ {old} : x.token_hash # new.token_hash
    /\ new.user_id \in Ids(users)
    /\ refresh_tokens' = (refresh_tokens \ {old}) \cup {new}
    /\ UNCHANGED <<tenants, users, datasets, dataset_rows>>

\* DELETE FROM refresh_tokens WHERE id = ...
DeleteToken(row) ==
    /\ UNCHANGED <<clientVars, serverVars, txns, current_tenant_id, current_user_id>>
    /\ row \in SelectTokens
    /\ refresh_tokens' = refresh_tokens \ {row}
    /\ UNCHANGED <<tenants, users, datasets, dataset_rows>>

TenantRows == [id : TenantIds, name : TenantNames]
UserRows == [id : UserIds, tenant_id : TenantIds, email : Emails]
DatasetRows == [id : DatasetIds, tenant_id : TenantIds, user_id : UserIds]
DataRowRows == [id : DataRowIds, dataset_id : DatasetIds, tenant_id : TenantIds]
TokenRows == [id : TokenIds, user_id : UserIds, token_hash : TokenHashes]

\* A statement on one of the tables that carry a policy.
Statement ==
    \/ \E row \in UserRows : InsertUser(row)
    \/ \E old \in users, new \in UserRows : UpdateUser(old, new)
    \/ \E row \in users : DeleteUser(row)
    \/ \E row \in DatasetRows : InsertDataset(row)
    \/ \E old \in datasets, new \in DatasetRows : UpdateDataset(old, new)
    \/ \E row \in datasets : DeleteDataset(row)
    \/ \E row \in DataRowRows : InsertDataRow(row)
    \/ \E old \in dataset_rows, new \in DataRowRows : UpdateDataRow(old, new)
    \/ \E row \in dataset_rows : DeleteDataRow(row)
    \/ \E row \in TokenRows : InsertToken(row)
    \/ \E old \in refresh_tokens, new \in TokenRows : UpdateToken(old, new)
    \/ \E row \in refresh_tokens : DeleteToken(row)

DbNext ==
    \/ \E t \in {0} \cup TenantIds, u \in {0} \cup UserIds : SetContext(t, u)
    \/ \E row \in TenantRows : InsertTenant(row)
    \/ \E row \in tenants : DeleteTenant(row)
    \/ Statement

\* The database alone; the client is the one of a first visit, at rest.
DbSpecInit == Init /\ path = "/login" /\ cookie = 0 /\ activeRt = {}

DbSpec == DbSpecInit /\ [][DbNext]_vars

\* The users of the tenants and their refresh tokens: the statements on
\* refresh_tokens, and those on users that the foreign key depends on.
TokenNext ==
    \/ \E t \in {0} \cup TenantIds, u \in {0} \cup UserIds : SetContext(t, u)
    \/ \E row \in UserRows : InsertUser(row)
    \/ \E row \in users : DeleteUser(row)
    \/ \E row \in TokenRows : InsertToken(row)
    \/ \E old \in refresh_tokens, new \in TokenRows : UpdateToken(old, new)
    \/ \E row \in refresh_tokens : DeleteToken(row)

TokenSpec == DbSpecInit /\ [][TokenNext]_vars

\* ------------------------------------------------- concurrent inserts
\* A transaction decides to insert a tenant of name key, or a user of email
\* key; fresh records that no stored row had the key at that moment.  Other
\* transactions run between this step and the INSERT.
BeginInsert(p, table, key) ==
    /\ UNCHANGED <<clientVars, serverVars, current_tenant_id, current_user_id>>
    /\ txns[p].pc = "idle"
    /\ LET taken == IF table = "tenants"
                    THEN \E x \in tenants : x.name = key
                    ELSE \E x \in users : x.email = key
       IN  txns' = [txns EXCEPT ![p] =
                       [table |-> table, key |-> key, pc |-> "pending", fresh |-> ~taken]]
    /\ UNCHANGED tables

\* id UUID PRIMARY KEY DEFAULT uuid_generate_v4(): an id no row of the table has.
NewId(ids, table) == {i \in ids \ Ids(table) : \A j \in ids \ Ids(table) : i <= j}

\* INSERT INTO tenants (name) VALUES (key): the row is stored, or the statement
\* fails on the UNIQUE constraint.
ExecInsertTenant(p) ==
    /\ UNCHANGED <<clientVars, serverVars, current_tenant_id, current_user_id>>
    /\ txns[p].pc = "pending" /\ txns[p].table = "tenants"
    /\ \E id \in NewId(TenantIds, tenants) :
          LET row == [id |-> id, name |-> txns[p].key]
          IN  IF CanInsertTenant(row)
              THEN /\ tenants' = tenants \cup {row}
                   /\ txns' = [txns EXCEPT ![p].pc = "stored"]
              ELSE /\ tenants' = tenants
                   /\ txns' = [txns EXCEPT ![p].pc = "failed"]
    /\ UNCHANGED <<users, refresh_tokens, datasets, dataset_rows>>

\* INSERT INTO users (tenant_id, email) VALUES (current tenant, key), run with
\* the context of an existing tenant installed: the row is stored, or the
\* statement fails on the UNIQUE constraint.
ExecInsertUser(p) ==
    /\ UNCHANGED <<clientVars, serverVars, current_tenant_id, current_user_id>>
    /\ txns[p].pc = "pending" /\ txns[p].table = "users"
    /\ current_tenant_id \in Ids(tenants)
    /\ \E id \in NewId(UserIds, users) :
          LET row == [id |-> id, tenant_id |-> current_tenant_id, email |-> txns[p].key]
          IN  IF CanInsertUser(row)
              THEN /\ users' = users \cup {row}
                   /\ txns' = [txns EXCEPT ![p].pc = "stored"]
              ELSE /\ users' = users
                   /\ txns' = [txns EXCEPT ![p].pc = "failed"]
    /\ UNCHANGED <<tenants, refresh_tokens, datasets, dataset_rows>>

UniqNext ==
    \/ \E t \in TenantIds : SetContext(t, current_user_id)
    \/ \E p \in Procs, key \in TenantNames : BeginInsert(p, "tenants", key)
    \/ \E p \in Procs, key \in Emails : BeginInsert(p, "users", key)
    \/ \E p \in Procs : ExecInsertTenant(p)
    \/ \E p \in Procs : ExecInsertUser(p)

\* The database in which the second seeded tenant has been deleted, so that a
\* tenant name is free; the client is at rest.
UniqInit ==
    /\ ClientInit /\ path = "/login" /\ cookie = 0 /\ activeRt = {}
    /\ tenants = {t \in SeedTenants : t.id = 1}
    /\ users = {} /\ refresh_tokens = {} /\ datasets = {} /\ dataset_rows = {}
    /\ current_tenant_id = 0 /\ current_user_id = 0
    /\ txns = [p \in Procs |-> NoTxn]

UniqSpec == UniqInit /\ [][UniqNext]_vars

\* ------------------------------------------------------------------ properties

\* A POST /auth/refresh exchange of the session that has not completed: an
\* interceptor's refresh call, or an api request to /auth/refresh.
RefreshOutstanding(q) ==
    Refreshing(q) \/ (q.url = RefreshUrl /\ q.pc \in {"sent", "responded"})

\* C1: single-flight refresh: at most one POST /auth/refresh exchange of the
\* session is outstanding in any reachable state.
C1_SingleFlight == Cardinality({r \in Req : RefreshOutstanding(reqs[r])}) <= 1

\* The refresh call of r was sent with a refresh cookie that was ACTIVE, and
\* came back InvalidToken because another refresh rotated that cookie meanwhile.
LostRefreshRace(q) ==
    /\ q.pc = "refresh_responded"
    /\ q.resp.status = 401
    /\ q.ckActive
    /\ q.ck \in rotated

\* C2: no logout by refresh race: when the requests of one session that hold
\* one valid refresh cookie race through their 401s, none of them ends with the
\* token cleared or the user sent to /login; each is replayed with a new token.
C2_NoLogoutByRace ==
    [][\A r \in Req :
          (LostRefreshRace(reqs[r]) /\ DeliverRefresh(r)) =>
              /\ accessToken' # 0
              /\ redirecting' = redirecting
              /\ reqs'[r].pc = "sent"]_vars

\* C3: retry at most once: every request starts at most one refresh and is
\* replayed at most once, and a flagged request that gets a 401 again is
\* rejected to its caller with no further refresh and no further replay.
C3_RetryOnce ==
    /\ [](\A r \in Req : reqs[r].nRefresh <= 1 /\ reqs[r].nReplay <= 1)
    /\ [][\A r \in Req :
            (reqs[r].retry /\ reqs[r].resp.status = 401 /\ DeliverApi(r)) =>
                /\ reqs'[r].pc = "rejected"
                /\ reqs'[r].nRefresh = reqs[r].nRefresh
                /\ reqs'[r].nReplay = reqs[r].nReplay]_vars

\* A replayed request failed with 401 again and was rejected.
C3_Witness ==
    \E r \in Req : /\ reqs[r].pc = "rejected" /\ reqs[r].retry
                   /\ reqs[r].nRefresh = 1 /\ reqs[r].nReplay = 1
                   /\ reqs[r].resp.status = 401

\* C4: requests to the /auth/ endpoints (login, refresh, logout, the
\* mount-time refresh included) never start a refresh and are never replayed;
\* on an error the interceptor rejects and leaves the in-memory token as it is.
C4_AuthExcluded ==
    \A r \in Req :
        /\ reqs[r].kind \in {"init", "login", "logout"} => reqs[r].url[1] = "auth"
        /\ (reqs[r].pc # "idle" /\ reqs[r].url[1] = "auth") =>
              /\ reqs[r].nRefresh = 0
              /\ reqs[r].nReplay = 0
              /\ ~reqs[r].retry
              /\ ~Refreshing(reqs[r])
              /\ (reqs[r].pc = "responded" /\ reqs[r].resp.status \notin {200, 204}) =>
                    LET i == Intercept(reqs[r], Sess, cookie)
                    IN  /\ i.branch = "reject"
                        /\ i.q.pc = "rejected"
                        /\ i.s.tok = accessToken

\* The mount-time refresh got a 401 and was rejected.
C4_Witness ==
    \E r \in Req : /\ reqs[r].kind = "init" /\ reqs[r].pc = "rejected"
                   /\ reqs[r].resp.status = 401

\* C5: when the refresh started for a 401 succeeds, that request has made
\* exactly one refresh call, the returned token becomes the in-memory token,
\* and the request is replayed with that token (not the one it failed with),
\* with no redirect to /login.
C5_RefreshAndReplay ==
    [][\A r \in Req :
          (reqs[r].pc = "refresh_responded" /\ reqs[r].resp.status = 200
              /\ DeliverRefresh(r)) =>
              /\ reqs[r].nRefresh = 1
              /\ accessToken' = reqs[r].resp.tok
              /\ reqs'[r].pc = "sent"
              /\ reqs'[r].hdr = reqs[r].resp.tok
              /\ reqs'[r].hdr # reqs[r].hdr
              /\ reqs'[r].nReplay = 1
              /\ redirecting' = redirecting
              /\ path' = path]_vars

\* A data request is on the wire again, carrying the token its refresh returned.
C5_Witness ==
    \E r \in Req : /\ reqs[r].kind = "data" /\ reqs[r].pc = "sent"
                   /\ reqs[r].nRefresh = 1 /\ reqs[r].nReplay = 1
                   /\ reqs[r].hdr = accessToken /\ reqs[r].hdr \in validAt

\* C6: when the refresh started for a 401 fails, the in-memory token becomes
\* null, the user is on the way to /login (or already there), the request is
\* not replayed and its caller gets a rejection.
C6_RefreshFailure ==
    [][\A r \in Req :
          (reqs[r].pc = "refresh_responded" /\ reqs[r].resp.status # 200
              /\ DeliverRefresh(r)) =>
              /\ accessToken' = 0
              /\ (OnLoginPage(path') \/ redirecting')
              /\ reqs'[r].pc = "rejected"
              /\ reqs'[r].nReplay = reqs[r].nReplay]_vars

\* A data request was rejected after its refresh failed; the token is gone
\* and the document is being replaced by /login.
C6_Witness ==
    \E r \in Req : /\ reqs[r].kind = "data" /\ reqs[r].pc = "rejected"
                   /\ reqs[r].nRefresh = 1 /\ reqs[r].nReplay = 0
                   /\ accessToken = 0 /\ redirecting

\* C7: cancellation: a refresh response that arrives after the user logged
\* out (its exchange was on the wire when logout() ran, and the session is
\* still cleared) leaves the token null and the user unauthenticated.
C7_Cancellation ==
    [][\A r \in Req :
          (reqs[r].cancelled /\ accessToken = 0 /\ user = 0 /\ DeliverRefresh(r)) =>
              (accessToken' = 0 /\ user' = 0)]_vars

\* C8: bounded refresh: a request waiting on a refresh is eventually replayed
\* or rejected, and the mount-time loading state is eventually left.
C8_BoundedRefresh ==
    /\ \A r \in Req : Refreshing(reqs[r]) ~> ~Refreshing(reqs[r])
    /\ isLoading ~> ~isLoading

\* The mount-time refresh requests of the document.
InitReqs == {r \in Req : reqs[r].kind = "init"}

\* C9: after a document load the token is null, the user null and isLoading
\* true, with one refresh call issued by the AuthProvider; when it succeeds the
\* returned token and identity are installed, when it fails both are null,
\* and isLoading turns false only in the step that settles that refresh.
C9_Reload ==
    /\ [](/\ Cardinality(InitReqs) = 1
          /\ isLoading <=> \E r \in InitReqs : reqs[r].pc \in {"sent", "responded"})
    /\ [][/\ PageLoad =>
                /\ accessToken' = 0 /\ user' = 0 /\ isLoading'
                /\ \A r \in Req : reqs'[r].kind = "init" =>
                      (reqs'[r].url = RefreshUrl /\ reqs'[r].pc = "sent" /\ reqs'[r].hdr = 0)
          /\ \A r \in InitReqs :
                DeliverApi(r) =>
                   IF reqs[r].resp.status = 200
                   THEN /\ accessToken' = reqs[r].resp.tok
                        /\ user' = reqs[r].resp.uid /\ user' # 0
                        /\ ~isLoading'
                   ELSE accessToken' = 0 /\ user' = 0 /\ ~isLoading'
          /\ (isLoading /\ ~isLoading') => \E r \in InitReqs : DeliverApi(r)]_vars

\* The mount-time refresh succeeded: authenticated without a login.
C9_Witness ==
    /\ ~isLoading /\ user # 0 /\ accessToken # 0
    /\ \E r \in InitReqs : reqs[r].pc = "resolved"
    /\ \A r \in Req : reqs[r].kind # "login"
\* The rows of a table that a step created, modified or deleted.
Touched(before, after) == (before \ after) \cup (after \ before)

\* C10: tenant isolation at the storage layer: a statement on users, datasets
\* or dataset_rows that runs with app.current_tenant_id = T reads only rows of
\* tenant T, and creates, modifies or deletes only rows of tenant T.
C10_TenantIsolation ==
    /\ [](\A row \in SelectUsers \cup SelectDatasets \cup SelectDataRows :
             row.tenant_id = current_tenant_id)
    /\ [][(current_tenant_id # 0 /\ tenants' = tenants) =>
             \A row \in Touched(users, users') \cup Touched(datasets, datasets')
                          \cup Touched(dataset_rows, dataset_rows') :
                 row.tenant_id = current_tenant_id]_vars

C12_MissingContextFails ==
    /\ (current_tenant_id = 0 /\ users \cup datasets \cup dataset_rows # {}) =>
          StatementRaises(current_tenant_id)
    /\ (current_user_id = 0 /\ refresh_tokens # {}) =>
          StatementRaises(current_user_id)

\* The transactions that raced for a key (none of them saw it stored when it
\* began) and have run their INSERT.
Racers(table, key) ==
    {p \in Procs : /\ txns[p].table = table /\ txns[p].key = key
                   /\ txns[p].fresh /\ txns[p].pc \in {"stored", "failed"}}

\* C13: uniqueness under concurrency: in every interleaving of tenant creations
\* and user registrations no two tenants share a name and no two users share an
\* email, and of the inserts that raced for one name or email exactly one is
\* stored and the others fail.
C13_Uniqueness ==
    /\ \A x, y \in tenants : x.name = y.name => x = y
    /\ \A x, y \in users : x.email = y.email => x = y
    /\ \A key \in TenantNames :
          Racers("tenants", key) # {} =>
             Cardinality({p \in Racers("tenants", key) : txns[p].pc = "stored"}) = 1
    /\ \A key \in Emails :
          Racers("users", key) # {} =>
             Cardinality({p \in Racers("users", key) : txns[p].pc = "stored"}) = 1

\* Two registrations raced for one email: one is stored, the other failed.
C13_Witness ==
    \E p, q \in Procs, key \in Emails :
        /\ {p, q} \subseteq Racers("users", key)
        /\ txns[p].pc = "stored" /\ txns[q].pc = "failed"

\* The server has answered a POST /auth/refresh of r, and the client has not
\* yet taken the answer.
RotateAnswered(q) ==
    \/ q.pc = "refresh_responded"
    \/ q.pc = "responded" /\ q.url = RefreshUrl

\* C14: rotation succeeds at most once: a rotate call succeeds only on an
\* ACTIVE token and retires it in the same step, a call with a token already
\* rotated is answered InvalidToken (unless the exchange itself fails), of two
\* calls with the same token at most one succeeds, and never is a rotated
\* token still valid beside its successor.
C14_RotateOnce ==
    /\ [](activeRt \cap rotated = {})
    /\ [](\A r, x \in Req :
             (r # x /\ RotateAnswered(reqs[r]) /\ RotateAnswered(reqs[x])
                    /\ reqs[r].ck = reqs[x].ck)
             => ~(reqs[r].resp.status = 200 /\ reqs[x].resp.status = 200))
    /\ [][/\ rotated \subseteq rotated'
          /\ (activeRt' \ activeRt) \cap rotated = {}
          /\ \A r \in Req :
                (~RotateAnswered(reqs[r]) /\ RotateAnswered(reqs'[r])) =>
                   IF reqs'[r].resp.status = 200
                   THEN /\ reqs[r].ck \in activeRt
                        /\ reqs[r].ck \in rotated' /\ reqs[r].ck \notin activeRt'
                        /\ reqs'[r].resp.setck \in activeRt'
                   ELSE /\ reqs'[r].resp.status \in {401, 500}
                        /\ reqs'[r].resp.status = 401 => reqs[r].ck \notin activeRt
                        /\ activeRt' = activeRt /\ rotated' = rotated]_vars

\* Two rotate calls carried the same refresh token: one succeeded, the other
\* was answered InvalidToken.
C14_Witness ==
    \E r, x \in Req :
        /\ RotateAnswered(reqs[r]) /\ RotateAnswered(reqs[x])
        /\ reqs[r].ck = reqs[x].ck
        /\ reqs[r].resp.status = 200 /\ reqs[x].resp.status = 401

\* C15: logout always clears the local session: handleLogout sends POST
\* /auth/logout, and when that call settles, resolved or rejected, the access
\* token and the user are null and the location is /login.
C15_LogoutClears ==
    [][\A r \in Req :
          /\ (reqs[r].kind # "logout" /\ reqs'[r].kind = "logout") =>
                (reqs'[r].url = LogoutUrl /\ reqs'[r].pc = "sent")
          /\ (reqs[r].kind = "logout" /\ reqs[r].pc = "responded"
                 /\ reqs'[r].pc \in {"resolved", "rejected"}) =>
                (accessToken' = 0 /\ user' = 0 /\ path' = "/login")]_vars

\* A logout call has failed and the client is signed out on /login.
C15_Witness ==
    /\ accessToken = 0 /\ user = 0 /\ path = "/login"
    /\ \E r \in Req : /\ reqs[r].kind = "logout" /\ reqs[r].pc = "rejected"
                      /\ reqs[r].resp.status = 500

\* The pages behind the route guard.
GuardedPages == {"/dashboard", DatasetPath}

\* C16: route guard: the dashboard and the dataset page issue a data request
\* (list datasets, get dataset) only while the user is authenticated; they
\* navigate to /login only when loading is over and the user is not
\* authenticated, never while the mount-time refresh is loading, and in that
\* situation the navigation is due.
C16_RouteGuard ==
    /\ [][\A r \in Req :
             (reqs[r].kind # "data" /\ reqs'[r].kind = "data") => user # 0]_vars
    /\ [][(path \in GuardedPages /\ path' = "/login" /\ reqs' = reqs) =>
             (~isLoading /\ user = 0)]_vars
    /\ []((path \in GuardedPages /\ ~isLoading /\ user = 0) =>
             ENABLED (DashboardRedirect \/ DatasetRedirect))

\* The api request r is a register call whose promise settles in this step.
RegisterSettles(r) ==
    /\ reqs[r].kind = "register" /\ reqs[r].pc = "responded"
    /\ reqs'[r].pc \in {"resolved", "rejected"}

\* C17: registration is validated before any request: a submit with two
\* different password fields, or with a password shorter than 8 characters,
\* sets an error, sends no request and leaves token and user as they are; the
\* token and the identity are installed and the user is sent to /dashboard
\* when a register call succeeds, and a register call that fails leaves the
\* session as it is and sets an error.
C17_RegisterValidated ==
    [][/\ \A password, confirmPassword \in Passwords :
            (/\ SubmitRegister(password, confirmPassword)
             /\ (password # confirmPassword \/ Len(password) < MinPasswordLength))
            => (/\ error' # "" /\ reqs' = reqs
                /\ accessToken' = accessToken /\ user' = user /\ path' = path)
       /\ \A r \in Req :
            RegisterSettles(r) =>
               IF reqs[r].resp.status = 200
               THEN /\ accessToken' = reqs[r].resp.tok /\ accessToken' # 0
                    /\ user' = reqs[r].resp.uid /\ user' # 0
                    /\ path' = "/dashboard"
               ELSE /\ accessToken' = accessToken /\ user' = user /\ path' = path
                    /\ error' # ""
       /\ (path = "/register" /\ path' = "/dashboard") =>
            \E r \in Req : RegisterSettles(r) /\ reqs[r].resp.status = 200]_vars

\* The form has refused a short password: the error is shown and no register
\* call has been made.
C17_Witness ==
    /\ path = "/register"
    /\ error = "Password must be at least 8 characters"
    /\ \A r \in Req : reqs[r].kind # "register"

\* C18: the two client stores agree: in every reachable state the AuthContext
\* holds a user exactly when the API client holds an access token.
C18_SessionConsistency == (user # 0) <=> (accessToken # 0)

\* C19: the denormalized tenant_id is consistent: every dataset_rows row has
\* the tenant_id of the dataset its dataset_id references.
C19_DenormalizedTenant ==
    \A x \in dataset_rows :
        \A d \in datasets : d.id = x.dataset_id => d.tenant_id = x.tenant_id
====
